---- MODULE Spec2Model ----
\* Model of cups/base.h: one pass of the C preprocessor over the header
\* (capability detection, then the definition of every annotation macro),
\* followed by uses of the macros at declaration sites.
EXTENDS Integers, Sequences, FiniteSets, TLC

VARIABLES env, ext, major, minor, defined, macros, pc, use, out

vars == <<env, ext, major, minor, defined, macros, pc, use, out>>

\* ---------------------------------------------------------------- bounds
MaxMajor == 5
MaxMinor == 5
MaxPos == 3
MaxLen == 2

\* ------------------------------------------------- the translation unit
\* Names the compiler or the build may predefine before the header is read.
EnvNames == {"__has_extension", "__GNUC__", "_WIN32", "__APPLE__",
             "_CUPS_SOURCE", "_CUPS_NO_DEPRECATED", "LIBCUPS2_EXPORTS",
             "_CUPS_HAS_NONNULL"}

Extensions == {"attribute_deprecated_with_message",
               "attribute_unavailable_with_message"}

Messages == {"use X", "use Y"}

Positions == 1 .. MaxPos

RECURSIVE SeqsUpTo(_)
SeqsUpTo(n) ==
  IF n = 0 THEN {<<>>}
  ELSE LET S == SeqsUpTo(n - 1)
       IN S \cup {Append(s, p) : s \in {t \in S : Len(t) = n - 1}, p \in Positions}

IndexLists == SeqsUpTo(MaxLen)

NoMacros == [n \in {} |-> <<>>]

NoUse == [kind |-> "none", msg |-> "", idx |-> <<>>]

\* ------------------------------------------------------------ line 41-67
\* #ifdef __has_extension / #elif defined(__GNUC__) / #elif defined(_WIN32)
DetectedFlagsGnucNoMinor(d, e, maj, min) ==
  IF "__has_extension" \in d THEN
    {"_CUPS_HAS_DEPRECATED", "_CUPS_HAS_FORMAT", "_CUPS_HAS_NORETURN",
     "_CUPS_HAS_VISIBILITY"}
    \cup (IF "attribute_deprecated_with_message" \in e
          THEN {"_CUPS_HAS_DEPRECATED_WITH_MESSAGE"} ELSE {})
    \cup (IF "attribute_unavailable_with_message" \in e
          THEN {"_CUPS_HAS_UNAVAILABLE_WITH_MESSAGE"} ELSE {})
  ELSE IF "__GNUC__" \in d THEN
    (IF maj >= 3
     THEN {"_CUPS_HAS_DEPRECATED", "_CUPS_HAS_FORMAT", "_CUPS_HAS_NORETURN",
           "_CUPS_HAS_VISIBILITY"}
     ELSE {})
    \cup (IF maj >= 4 THEN {"_CUPS_HAS_DEPRECATED_WITH_MESSAGE"} ELSE {})
  ELSE {}

DetectedFlagsWithNonNull(d, e, maj, min) ==
  IF "__has_extension" \in d THEN
    {"_CUPS_HAS_DEPRECATED", "_CUPS_HAS_FORMAT", "_CUPS_HAS_NORETURN",
     "_CUPS_HAS_VISIBILITY", "_CUPS_HAS_NONNULL"}
    \cup (IF "attribute_deprecated_with_message" \in e
          THEN {"_CUPS_HAS_DEPRECATED_WITH_MESSAGE"} ELSE {})
    \cup (IF "attribute_unavailable_with_message" \in e
          THEN {"_CUPS_HAS_UNAVAILABLE_WITH_MESSAGE"} ELSE {})
  ELSE IF "__GNUC__" \in d THEN
    (IF maj >= 3
     THEN {"_CUPS_HAS_DEPRECATED", "_CUPS_HAS_FORMAT", "_CUPS_HAS_NORETURN",
           "_CUPS_HAS_VISIBILITY"}
     ELSE {})
    \cup (IF maj >= 5 THEN {"_CUPS_HAS_DEPRECATED_WITH_MESSAGE"}
          ELSE IF maj = 4 /\ min >= 5 THEN {"_CUPS_HAS_DEPRECATED_WITH_MESSAGE"}
          ELSE {})
  ELSE {}

DetectedFlags(d, e, maj, min) ==
  IF "__has_extension" \in d THEN
    {"_CUPS_HAS_DEPRECATED", "_CUPS_HAS_FORMAT", "_CUPS_HAS_NORETURN",
     "_CUPS_HAS_VISIBILITY"}
    \cup (IF "attribute_deprecated_with_message" \in e
          THEN {"_CUPS_HAS_DEPRECATED_WITH_MESSAGE"} ELSE {})
    \cup (IF "attribute_unavailable_with_message" \in e
          THEN {"_CUPS_HAS_UNAVAILABLE_WITH_MESSAGE"} ELSE {})
  ELSE IF "__GNUC__" \in d THEN
    (IF maj >= 3
     THEN {"_CUPS_HAS_DEPRECATED", "_CUPS_HAS_FORMAT", "_CUPS_HAS_NORETURN",
           "_CUPS_HAS_VISIBILITY"}
     ELSE {})
    \cup (IF maj >= 5 THEN {"_CUPS_HAS_DEPRECATED_WITH_MESSAGE"}
          ELSE IF maj = 4 /\ min >= 5 THEN {"_CUPS_HAS_DEPRECATED_WITH_MESSAGE"}
          ELSE {})
  ELSE {}

\* line 65-66: #elif defined(_WIN32) / #define __attribute__(...)
DetectedMacros(d) ==
  IF "__has_extension" \notin d /\ "__GNUC__" \notin d /\ "_WIN32" \in d
  THEN ("__attribute__" :> <<>>)
  ELSE NoMacros

\* ------------------------------------------------------------ line 75-87
\* line 79: the export branch is compiled out by "&& 0"
ExportBranchOn == TRUE

ExportBranchEnabled == FALSE

VisibilityMacros(d) ==
  IF "_CUPS_HAS_VISIBILITY" \in d THEN
    ("_CUPS_INTERNAL" :> <<"visibility(hidden)">>)
    @@ ("_CUPS_PRIVATE" :> <<"visibility(default)">>)
    @@ ("_CUPS_PUBLIC" :> <<"visibility(default)">>)
  ELSE IF "_WIN32" \in d /\ "LIBCUPS2_EXPORTS" \in d /\ ExportBranchEnabled THEN
    ("_CUPS_INTERNAL" :> <<>>)
    @@ ("_CUPS_PRIVATE" :> <<"declspec(dllexport)">>)
    @@ ("_CUPS_PUBLIC" :> <<"declspec(dllexport)">>)
  ELSE
    ("_CUPS_INTERNAL" :> <<>>)
    @@ ("_CUPS_PRIVATE" :> <<>>)
    @@ ("_CUPS_PUBLIC" :> <<>>)

\* ----------------------------------------------------------- line 99-126
DeprecatedMacrosNoVendor(d) ==
  IF "_CUPS_HAS_DEPRECATED" \notin d
     \/ ("_CUPS_SOURCE" \in d /\ "_CUPS_NO_DEPRECATED" \notin d) THEN
    ("_CUPS_DEPRECATED" :> <<"_CUPS_PUBLIC">>)
    @@ ("_CUPS_DEPRECATED_MSG" :> <<"_CUPS_PUBLIC">>)
  ELSE IF "_CUPS_HAS_UNAVAILABLE_WITH_MESSAGE" \in d /\ "_CUPS_NO_DEPRECATED" \in d THEN
    ("_CUPS_DEPRECATED" :> <<"unavailable", "_CUPS_PUBLIC">>)
    @@ ("_CUPS_DEPRECATED_MSG" :> <<"unavailable(m)", "_CUPS_PUBLIC">>)
  ELSE
    ("_CUPS_DEPRECATED" :> <<"deprecated", "_CUPS_PUBLIC">>)
    @@ ("_CUPS_DEPRECATED_MSG" :>
          IF "_CUPS_HAS_DEPRECATED_WITH_MESSAGE" \in d
          THEN <<"deprecated(m)", "_CUPS_PUBLIC">>
          ELSE <<"deprecated", "_CUPS_PUBLIC">>)

DeprecatedMacrosSourceOnly(d) ==
  IF "_CUPS_HAS_DEPRECATED" \notin d \/ "_CUPS_SOURCE" \in d THEN
    ("_CUPS_DEPRECATED" :> <<"_CUPS_PUBLIC">>)
    @@ ("_CUPS_DEPRECATED_MSG" :> <<"_CUPS_PUBLIC">>)
  ELSE IF "__APPLE__" \in d /\ "_CUPS_NO_DEPRECATED" \in d THEN
    ("_CUPS_DEPRECATED" :> <<"unavailable", "_CUPS_PUBLIC">>)
    @@ ("_CUPS_DEPRECATED_MSG" :> <<"unavailable(m)", "_CUPS_PUBLIC">>)
  ELSE IF "__APPLE__" \in d THEN
    ("_CUPS_DEPRECATED" :> <<"deprecated", "_CUPS_PUBLIC">>)
    @@ ("_CUPS_DEPRECATED_MSG" :> <<"deprecated(m)", "_CUPS_PUBLIC">>)
  ELSE IF "_CUPS_HAS_UNAVAILABLE_WITH_MESSAGE" \in d /\ "_CUPS_NO_DEPRECATED" \in d THEN
    ("_CUPS_DEPRECATED" :> <<"unavailable", "_CUPS_PUBLIC">>)
    @@ ("_CUPS_DEPRECATED_MSG" :> <<"unavailable(m)", "_CUPS_PUBLIC">>)
  ELSE
    ("_CUPS_DEPRECATED" :> <<"deprecated", "_CUPS_PUBLIC">>)
    @@ ("_CUPS_DEPRECATED_MSG" :>
          IF "_CUPS_HAS_DEPRECATED_WITH_MESSAGE" \in d
          THEN <<"deprecated(m)", "_CUPS_PUBLIC">>
          ELSE <<"deprecated", "_CUPS_PUBLIC">>)

DeprecatedMacrosPlainUnavailable(d) ==
  IF "_CUPS_HAS_DEPRECATED" \notin d
     \/ ("_CUPS_SOURCE" \in d /\ "_CUPS_NO_DEPRECATED" \notin d) THEN
    ("_CUPS_DEPRECATED" :> <<"_CUPS_PUBLIC">>)
    @@ ("_CUPS_DEPRECATED_MSG" :> <<"_CUPS_PUBLIC">>)
  ELSE IF "__APPLE__" \in d /\ "_CUPS_NO_DEPRECATED" \in d THEN
    ("_CUPS_DEPRECATED" :> <<"deprecated", "_CUPS_PUBLIC">>)
    @@ ("_CUPS_DEPRECATED_MSG" :> <<"unavailable(m)", "_CUPS_PUBLIC">>)
  ELSE IF "__APPLE__" \in d THEN
    ("_CUPS_DEPRECATED" :> <<"deprecated", "_CUPS_PUBLIC">>)
    @@ ("_CUPS_DEPRECATED_MSG" :> <<"deprecated(m)", "_CUPS_PUBLIC">>)
  ELSE IF "_CUPS_HAS_UNAVAILABLE_WITH_MESSAGE" \in d /\ "_CUPS_NO_DEPRECATED" \in d THEN
    ("_CUPS_DEPRECATED" :> <<"unavailable", "_CUPS_PUBLIC">>)
    @@ ("_CUPS_DEPRECATED_MSG" :> <<"unavailable(m)", "_CUPS_PUBLIC">>)
  ELSE
    ("_CUPS_DEPRECATED" :> <<"deprecated", "_CUPS_PUBLIC">>)
    @@ ("_CUPS_DEPRECATED_MSG" :>
          IF "_CUPS_HAS_DEPRECATED_WITH_MESSAGE" \in d
          THEN <<"deprecated(m)", "_CUPS_PUBLIC">>
          ELSE <<"deprecated", "_CUPS_PUBLIC">>)

DeprecatedMacros(d) ==
  IF "_CUPS_HAS_DEPRECATED" \notin d
     \/ ("_CUPS_SOURCE" \in d /\ "_CUPS_NO_DEPRECATED" \notin d) THEN
    ("_CUPS_DEPRECATED" :> <<"_CUPS_PUBLIC">>)
    @@ ("_CUPS_DEPRECATED_MSG" :> <<"_CUPS_PUBLIC">>)
  ELSE IF "__APPLE__" \in d /\ "_CUPS_NO_DEPRECATED" \in d THEN
    ("_CUPS_DEPRECATED" :> <<"unavailable", "_CUPS_PUBLIC">>)
    @@ ("_CUPS_DEPRECATED_MSG" :> <<"unavailable(m)", "_CUPS_PUBLIC">>)
  ELSE IF "__APPLE__" \in d THEN
    ("_CUPS_DEPRECATED" :> <<"deprecated", "_CUPS_PUBLIC">>)
    @@ ("_CUPS_DEPRECATED_MSG" :> <<"deprecated(m)", "_CUPS_PUBLIC">>)
  ELSE IF "_CUPS_HAS_UNAVAILABLE_WITH_MESSAGE" \in d /\ "_CUPS_NO_DEPRECATED" \in d THEN
    ("_CUPS_DEPRECATED" :> <<"unavailable", "_CUPS_PUBLIC">>)
    @@ ("_CUPS_DEPRECATED_MSG" :> <<"unavailable(m)", "_CUPS_PUBLIC">>)
  ELSE
    ("_CUPS_DEPRECATED" :> <<"deprecated", "_CUPS_PUBLIC">>)
    @@ ("_CUPS_DEPRECATED_MSG" :>
          IF "_CUPS_HAS_DEPRECATED_WITH_MESSAGE" \in d
          THEN <<"deprecated(m)", "_CUPS_PUBLIC">>
          ELSE <<"deprecated", "_CUPS_PUBLIC">>)

\* ---------------------------------------------------------- line 133-137
FormatMacro(d) ==
  IF "_CUPS_HAS_FORMAT" \in d
  THEN ("_CUPS_FORMAT" :> <<"format(printf,a,b)">>)
  ELSE ("_CUPS_FORMAT" :> <<>>)

\* ---------------------------------------------------------- line 147-155
InternalMsgMacroNoPublic(d) ==
  IF "_CUPS_SOURCE" \in d THEN
    ("_CUPS_INTERNAL_MSG" :> <<"_CUPS_PUBLIC">>)
  ELSE IF "_CUPS_HAS_UNAVAILABLE_WITH_MESSAGE" \in d THEN
    ("_CUPS_INTERNAL_MSG" :> <<"unavailable(m)">>)
  ELSE IF "_CUPS_HAS_DEPRECATED_WITH_MESSAGE" \in d THEN
    ("_CUPS_INTERNAL_MSG" :> <<"deprecated(m)", "_CUPS_PUBLIC">>)
  ELSE
    ("_CUPS_INTERNAL_MSG" :> <<"deprecated", "_CUPS_PUBLIC">>)

InternalMsgMacro(d) ==
  IF "_CUPS_SOURCE" \in d THEN
    ("_CUPS_INTERNAL_MSG" :> <<"_CUPS_PUBLIC">>)
  ELSE IF "_CUPS_HAS_UNAVAILABLE_WITH_MESSAGE" \in d THEN
    ("_CUPS_INTERNAL_MSG" :> <<"unavailable(m)", "_CUPS_PUBLIC">>)
  ELSE IF "_CUPS_HAS_DEPRECATED_WITH_MESSAGE" \in d THEN
    ("_CUPS_INTERNAL_MSG" :> <<"deprecated(m)", "_CUPS_PUBLIC">>)
  ELSE
    ("_CUPS_INTERNAL_MSG" :> <<"deprecated", "_CUPS_PUBLIC">>)

\* ---------------------------------------------------------- line 163-167
NonNullMacro(d) ==
  IF "_CUPS_HAS_NONNULL" \in d
  THEN ("_CUPS_NONNULL" :> <<"nonnull(va)">>)
  ELSE ("_CUPS_NONNULL" :> <<>>)

\* ---------------------------------------------------------- line 174-178
NoReturnMacro(d) ==
  IF "_CUPS_HAS_NORETURN" \in d
  THEN ("_CUPS_NORETURN" :> <<"noreturn">>)
  ELSE ("_CUPS_NORETURN" :> <<>>)

\* ------------------------------------------------------- macro expansion
\* Replacement-list elements written with __attribute__ ((...)).
AttributeForms == {"deprecated", "deprecated(m)", "unavailable", "unavailable(m)",
                   "visibility(hidden)", "visibility(default)",
                   "format(printf,a,b)", "nonnull(va)", "noreturn"}

\* The construct a replacement-list element denotes once the macro's
\* arguments (message m, index list idx) are substituted.
Construct(form, m, idx) ==
  CASE form = "deprecated"          -> [attr |-> "deprecated", msg |-> "", idx |-> <<>>]
    [] form = "deprecated(m)"       -> [attr |-> "deprecated", msg |-> m, idx |-> <<>>]
    [] form = "unavailable"         -> [attr |-> "unavailable", msg |-> "", idx |-> <<>>]
    [] form = "unavailable(m)"      -> [attr |-> "unavailable", msg |-> m, idx |-> <<>>]
    [] form = "visibility(hidden)"  -> [attr |-> "visibility", msg |-> "hidden", idx |-> <<>>]
    [] form = "visibility(default)" -> [attr |-> "visibility", msg |-> "default", idx |-> <<>>]
    [] form = "format(printf,a,b)"  -> [attr |-> "format", msg |-> "printf", idx |-> idx]
    [] form = "nonnull(va)"         -> [attr |-> "nonnull", msg |-> "", idx |-> idx]
    [] form = "noreturn"            -> [attr |-> "noreturn", msg |-> "", idx |-> <<>>]
    [] form = "declspec(dllexport)" -> [attr |-> "declspec", msg |-> "dllexport", idx |-> <<>>]

\* Replacement with rescanning: a nested macro name is replaced by its own
\* list, and __attribute__ (...) vanishes where line 66 defined it as a macro.
RECURSIVE Expand(_, _, _, _)
Expand(body, m, idx, tbl) ==
  IF body = <<>> THEN <<>>
  ELSE LET h == Head(body)
       IN (IF h \in DOMAIN tbl /\ h # "__attribute__" THEN Expand(tbl[h], m, idx, tbl)
           ELSE IF h \in AttributeForms /\ "__attribute__" \in DOMAIN tbl THEN <<>>
           ELSE <<Construct(h, m, idx)>>)
          \o Expand(Tail(body), m, idx, tbl)

\* The macros a declaration can use and the arguments each one takes.
Uses ==
  {[kind |-> k, msg |-> "", idx |-> <<>>] :
      k \in {"_CUPS_DEPRECATED", "_CUPS_INTERNAL", "_CUPS_NORETURN",
             "_CUPS_PRIVATE", "_CUPS_PUBLIC"}}
  \cup {[kind |-> k, msg |-> m, idx |-> <<>>] :
      k \in {"_CUPS_DEPRECATED_MSG", "_CUPS_INTERNAL_MSG"}, m \in Messages}
  \cup {[kind |-> "_CUPS_FORMAT", msg |-> "", idx |-> <<a, b>>] :
      a \in Positions, b \in Positions}
  \cup {[kind |-> "_CUPS_NONNULL", msg |-> "", idx |-> l] : l \in IndexLists}

\* ---------------------------------------------------------------- state
Init ==
  /\ env \in SUBSET EnvNames
  /\ ext \in SUBSET Extensions
  /\ "__has_extension" \notin env => ext = {}
  /\ major \in 0 .. MaxMajor
  /\ minor \in 0 .. MaxMinor
  \* __GNUC__ and __GNUC_MINOR__ are read on the #elif branch of line 52 only
  /\ ("__GNUC__" \notin env \/ "__has_extension" \in env) => (major = 0 /\ minor = 0)
  /\ defined = env
  /\ macros = NoMacros
  /\ pc = "detect"
  /\ use = NoUse
  /\ out = <<>>

\* line 41-67
Detect ==
  /\ pc = "detect"
  /\ defined' = defined \cup DetectedFlags(defined, ext, major, minor)
  /\ macros' = DetectedMacros(defined) @@ macros
  /\ pc' = "visibility"
  /\ UNCHANGED <<env, ext, major, minor, use, out>>

\* line 75-87
DefineVisibility ==
  /\ pc = "visibility"
  /\ macros' = VisibilityMacros(defined) @@ macros
  /\ pc' = "deprecated"
  /\ UNCHANGED <<env, ext, major, minor, defined, use, out>>

\* line 99-126
DefineDeprecated ==
  /\ pc = "deprecated"
  /\ macros' = DeprecatedMacros(defined) @@ macros
  /\ pc' = "format"
  /\ UNCHANGED <<env, ext, major, minor, defined, use, out>>

\* line 133-137
DefineFormat ==
  /\ pc = "format"
  /\ macros' = FormatMacro(defined) @@ macros
  /\ pc' = "internal_msg"
  /\ UNCHANGED <<env, ext, major, minor, defined, use, out>>

\* line 147-155
DefineInternalMsg ==
  /\ pc = "internal_msg"
  /\ macros' = InternalMsgMacro(defined) @@ macros
  /\ pc' = "nonnull"
  /\ UNCHANGED <<env, ext, major, minor, defined, use, out>>

\* line 163-167
DefineNonNull ==
  /\ pc = "nonnull"
  /\ macros' = NonNullMacro(defined) @@ macros
  /\ pc' = "noreturn"
  /\ UNCHANGED <<env, ext, major, minor, defined, use, out>>

\* line 174-178
DefineNoReturn ==
  /\ pc = "noreturn"
  /\ macros' = NoReturnMacro(defined) @@ macros
  /\ pc' = "done"
  /\ UNCHANGED <<env, ext, major, minor, defined, use, out>>

\* A declaration after the header is included uses one of the macros.
UseDirective ==
  /\ pc = "done"
  /\ \E u \in Uses :
       /\ use' = u
       /\ out' = Expand(<<u.kind>>, u.msg, u.idx, macros)
  /\ UNCHANGED <<env, ext, major, minor, defined, macros, pc>>

Next ==
  \/ Detect
  \/ DefineVisibility
  \/ DefineDeprecated
  \/ DefineFormat
  \/ DefineInternalMsg
  \/ DefineNonNull
  \/ DefineNoReturn
  \/ UseDirective

Spec == Init /\ [][Next]_vars

\* ------------------------------------------------------------ vocabulary
\* Capability flags, read from the macros the detector defined.
supportsDeprecated == "_CUPS_HAS_DEPRECATED" \in defined
supportsDeprecatedWithMessage == "_CUPS_HAS_DEPRECATED_WITH_MESSAGE" \in defined
supportsUnavailableWithMessage == "_CUPS_HAS_UNAVAILABLE_WITH_MESSAGE" \in defined
supportsFormatCheck == "_CUPS_HAS_FORMAT" \in defined
supportsNoReturn == "_CUPS_HAS_NORETURN" \in defined
supportsVisibility == "_CUPS_HAS_VISIBILITY" \in defined
supportsNonNullCheck == "_CUPS_HAS_NONNULL" \in defined

\* Build-mode switches.
BuildingOwnSource == "_CUPS_SOURCE" \in env
ExcludeDeprecated == "_CUPS_NO_DEPRECATED" \in env
VendorNative == "__APPLE__" \in env
BuildingForExport == "LIBCUPS2_EXPORTS" \in env
ExportAnnotationPlatform == "_WIN32" \in env
GenericFamily == "__has_extension" \notin env /\ "__GNUC__" \in env

Used(k) == pc = "done" /\ use.kind = k

DeprecationKinds == {"_CUPS_DEPRECATED", "_CUPS_DEPRECATED_MSG", "_CUPS_INTERNAL_MSG"}

UsedDeprecationKind == pc = "done" /\ use.kind \in DeprecationKinds

PublicExp == Expand(<<"_CUPS_PUBLIC">>, "", <<>>, macros)

DeprecatedMarker == [attr |-> "deprecated", msg |-> "", idx |-> <<>>]
DeprecatedMarkerMsg(m) == [attr |-> "deprecated", msg |-> m, idx |-> <<>>]
UnavailableMarker == [attr |-> "unavailable", msg |-> "", idx |-> <<>>]
UnavailableMarkerMsg(m) == [attr |-> "unavailable", msg |-> m, idx |-> <<>>]
HiddenMarker == [attr |-> "visibility", msg |-> "hidden", idx |-> <<>>]
DefaultMarker == [attr |-> "visibility", msg |-> "default", idx |-> <<>>]
ExportMarker == [attr |-> "declspec", msg |-> "dllexport", idx |-> <<>>]
NonNullMarker(l) == [attr |-> "nonnull", msg |-> "", idx |-> l]

Markers == {DeprecatedMarker, UnavailableMarker}
           \cup {DeprecatedMarkerMsg(m) : m \in Messages}
           \cup {UnavailableMarkerMsg(m) : m \in Messages}

\* --------------------------------------------------------------- claims

\* C1: when supportsDeprecated is false, Deprecated(), Deprecated(message)
\* and Internal(replacementMessage) each resolve to exactly the Public
\* marker, with no deprecated and no unavailable construct.
C1_PublicOnlyWithoutDeprecated ==
  (UsedDeprecationKind /\ ~supportsDeprecated) => out = PublicExp

\* C2 as stated: whenever the library builds its own source, Deprecated(),
\* Deprecated(message) and Internal(replacementMessage) each resolve to exactly
\* the Public marker, also when 'exclude deprecated API' is set.
C2_OwnSourceAlwaysPublic ==
  (UsedDeprecationKind /\ BuildingOwnSource) => out = PublicExp

\* C2 amended: when the library builds its own source, Internal(message)
\* resolves to exactly the Public marker for all flags and switches, and
\* Deprecated() / Deprecated(message) resolve to exactly the Public marker
\* unless 'exclude deprecated API' is set and supportsDeprecated is true, in
\* which case a marker precedes the Public marker.
C2_OwnSourcePublicUnlessExcluded ==
  /\ (Used("_CUPS_INTERNAL_MSG") /\ BuildingOwnSource) => out = PublicExp
  /\ (pc = "done" /\ use.kind \in {"_CUPS_DEPRECATED", "_CUPS_DEPRECATED_MSG"}
      /\ BuildingOwnSource)
       => IF ExcludeDeprecated /\ supportsDeprecated
          THEN Len(out) = 1 + Len(PublicExp) /\ out[1] \in Markers
          ELSE out = PublicExp

C2_Witness ==
  /\ Used("_CUPS_DEPRECATED_MSG")
  /\ BuildingOwnSource /\ ~ExcludeDeprecated /\ supportsDeprecated
  /\ out = <<DefaultMarker>>

\* C3: every construct in a resolved expansion has its capability flag true:
\* a deprecated-marker needs supportsDeprecated, one carrying a message needs
\* supportsDeprecatedWithMessage, an unavailable-marker carrying a message
\* needs supportsUnavailableWithMessage, format needs supportsFormatCheck,
\* noreturn needs supportsNoReturn, visibility needs supportsVisibility and
\* nonnull needs supportsNonNullCheck.
ConstructSupported(t) ==
  /\ t.attr = "deprecated" => supportsDeprecated
  /\ (t.attr = "deprecated" /\ t.msg # "") => supportsDeprecatedWithMessage
  /\ (t.attr = "unavailable" /\ t.msg # "") => supportsUnavailableWithMessage
  /\ t.attr = "format" => supportsFormatCheck
  /\ t.attr = "noreturn" => supportsNoReturn
  /\ t.attr = "visibility" => supportsVisibility
  /\ t.attr = "nonnull" => supportsNonNullCheck

C3_ConstructsOnlyWhenSupported ==
  (pc = "done" /\ use.kind # "none")
    => \A i \in 1 .. Len(out) : ConstructSupported(out[i])

\* C4: with supportsDeprecated true and not building own source,
\* Deprecated(message) follows the first matching rule of: vendor-native and
\* exclude -> unavailable(message); vendor-native -> deprecated(message);
\* supportsUnavailableWithMessage and exclude -> unavailable(message);
\* supportsDeprecatedWithMessage -> deprecated(message); otherwise -> plain
\* deprecated; each followed by the Public marker.
C4_DeprecatedMsgRuleOrder ==
  (Used("_CUPS_DEPRECATED_MSG") /\ supportsDeprecated /\ ~BuildingOwnSource)
    => out = <<(IF VendorNative /\ ExcludeDeprecated THEN UnavailableMarkerMsg(use.msg)
                ELSE IF VendorNative THEN DeprecatedMarkerMsg(use.msg)
                ELSE IF supportsUnavailableWithMessage /\ ExcludeDeprecated
                  THEN UnavailableMarkerMsg(use.msg)
                ELSE IF supportsDeprecatedWithMessage THEN DeprecatedMarkerMsg(use.msg)
                ELSE DeprecatedMarker)>> \o PublicExp

C4_Witness ==
  /\ Used("_CUPS_DEPRECATED_MSG")
  /\ supportsDeprecated /\ ~BuildingOwnSource
  /\ VendorNative /\ ~ExcludeDeprecated /\ ~supportsDeprecatedWithMessage
  /\ out = <<DeprecatedMarkerMsg("use X"), DefaultMarker>>

\* C5 as stated: Deprecated() is the Public marker alone when
\* supportsDeprecated is false or when building own source without 'exclude
\* deprecated API', and the deprecated-marker followed by the Public marker in
\* every other case.
C5_DeprecatedTwoOutcomes ==
  Used("_CUPS_DEPRECATED")
    => out = IF ~supportsDeprecated \/ (BuildingOwnSource /\ ~ExcludeDeprecated)
             THEN PublicExp
             ELSE <<DeprecatedMarker>> \o PublicExp

\* C5 amended: Deprecated() has three outcomes: the Public marker alone when
\* supportsDeprecated is false or when building own source without 'exclude
\* deprecated API'; otherwise the plain unavailable-marker followed by the
\* Public marker when 'exclude deprecated API' is set and the platform is
\* vendor-native or supportsUnavailableWithMessage is true; otherwise the
\* deprecated-marker followed by the Public marker.
C5_DeprecatedThreeOutcomes ==
  Used("_CUPS_DEPRECATED")
    => out = IF ~supportsDeprecated \/ (BuildingOwnSource /\ ~ExcludeDeprecated)
             THEN PublicExp
             ELSE IF ExcludeDeprecated /\ (VendorNative \/ supportsUnavailableWithMessage)
             THEN <<UnavailableMarker>> \o PublicExp
             ELSE <<DeprecatedMarker>> \o PublicExp

C5_Witness ==
  /\ Used("_CUPS_DEPRECATED")
  /\ supportsDeprecated /\ ExcludeDeprecated /\ VendorNative
  /\ ~supportsUnavailableWithMessage
  /\ out = <<UnavailableMarker, DefaultMarker>>

\* C6: for a generic-family compiler of version (major, minor), the four base
\* flags are true exactly when major >= 3; and on a non-vendor-native
\* platform, not building own source, without 'exclude deprecated API',
\* Deprecated(message) is the Public marker alone when major < 3, the
\* deprecated-marker with the message + Public when major >= 5 or
\* (major = 4 and minor >= 5), and the plain deprecated-marker + Public for
\* every other major >= 3.
C6_GenericFamilyVersions ==
  /\ (pc # "detect" /\ GenericFamily)
       => /\ supportsDeprecated <=> major >= 3
          /\ supportsFormatCheck <=> major >= 3
          /\ supportsNoReturn <=> major >= 3
          /\ supportsVisibility <=> major >= 3
  /\ (Used("_CUPS_DEPRECATED_MSG") /\ GenericFamily
      /\ ~VendorNative /\ ~BuildingOwnSource /\ ~ExcludeDeprecated)
       => out = IF major < 3 THEN PublicExp
                ELSE IF major >= 5 \/ (major = 4 /\ minor >= 5)
                  THEN <<DeprecatedMarkerMsg(use.msg)>> \o PublicExp
                ELSE <<DeprecatedMarker>> \o PublicExp

C6_Witness ==
  /\ Used("_CUPS_DEPRECATED_MSG") /\ GenericFamily
  /\ ~VendorNative /\ ~BuildingOwnSource /\ ~ExcludeDeprecated
  /\ major = 4 /\ minor = 3
  /\ use.msg = "use X"
  /\ out = <<DeprecatedMarker, DefaultMarker>>

\* C7: VisibilityPrivate() and VisibilityPublic() resolve to the identical
\* expansion; VisibilityInternal() is the hidden-visibility marker and
\* differs from them exactly when supportsVisibility is true, and is empty
\* otherwise.
C7_PrivateEqualsPublic ==
  /\ Used("_CUPS_PRIVATE") => out = PublicExp
  /\ Used("_CUPS_INTERNAL")
       => /\ out = IF supportsVisibility THEN <<HiddenMarker>> ELSE <<>>
          /\ (out # PublicExp) <=> supportsVisibility
          /\ (out # Expand(<<"_CUPS_PRIVATE">>, "", <<>>, macros)) <=> supportsVisibility

C7_Witness ==
  /\ Used("_CUPS_INTERNAL")
  /\ ~supportsVisibility /\ ExportAnnotationPlatform /\ BuildingForExport
  /\ out = <<>>

\* C8: the expansions of Deprecated(), Deprecated(message) and
\* Internal(replacementMessage) each consist of at most one deprecated or
\* unavailable marker followed by exactly the VisibilityPublic() expansion.
C8_OneMarkerThenPublic ==
  UsedDeprecationKind
    => \/ out = PublicExp
       \/ /\ out # <<>>
          /\ out[1] \in Markers
          /\ Tail(out) = PublicExp

C8_Witness ==
  /\ Used("_CUPS_INTERNAL_MSG")
  /\ ~BuildingOwnSource /\ supportsUnavailableWithMessage
  /\ out = <<UnavailableMarkerMsg("use Y"), DefaultMarker>>

\* C9 as stated: without attribute-based visibility on a platform requiring
\* export annotations, VisibilityPublic() is the export-table marker when
\* 'library is building for export' is set and empty when it is not;
\* VisibilityInternal() is empty in both cases.
C9_ExportMarkerWhenExporting ==
  (~supportsVisibility /\ ExportAnnotationPlatform)
    => /\ Used("_CUPS_PUBLIC")
            => out = IF BuildingForExport THEN <<ExportMarker>> ELSE <<>>
       /\ Used("_CUPS_INTERNAL") => out = <<>>

\* C9 amended: without attribute-based visibility on a platform requiring
\* export annotations, VisibilityPublic() is empty whether or not 'library is
\* building for export' is set (the export-table branch is compiled out);
\* VisibilityInternal() is empty in both cases.
C9_ExportBranchDisabled ==
  (~supportsVisibility /\ ExportAnnotationPlatform)
    => /\ Used("_CUPS_PUBLIC") => out = <<>>
       /\ Used("_CUPS_INTERNAL") => out = <<>>

C9_Witness ==
  /\ Used("_CUPS_PUBLIC")
  /\ ~supportsVisibility /\ ExportAnnotationPlatform /\ BuildingForExport
  /\ out = <<>>

\* C10: the detector never sets supportsNonNullCheck, so without external
\* enablement NonNull(list) is empty on every toolchain; NonNull(list) emits
\* a non-null attribute only when the capability was enabled from outside,
\* and then over exactly the given index list in the given order (nothing is
\* emitted where __attribute__ itself is defined away).
C10_NonNullOnlyExternal ==
  /\ (pc # "detect" /\ "_CUPS_HAS_NONNULL" \notin env) => ~supportsNonNullCheck
  /\ Used("_CUPS_NONNULL")
       => out = IF "_CUPS_HAS_NONNULL" \in env /\ "__attribute__" \notin DOMAIN macros
                THEN <<NonNullMarker(use.idx)>>
                ELSE <<>>

C10_Witness ==
  /\ Used("_CUPS_NONNULL")
  /\ "_CUPS_HAS_NONNULL" \in env
  /\ use.idx = <<1, 3>>
  /\ out = <<NonNullMarker(<<1, 3>>)>>

====
